---------------------------- MODULE Spec2Model ----------------------------
(***************************************************************************)
(* A model of scraper.py (itoi-daily): scrape_essay, the duplicate check   *)
(* and translation sequence of main(), load_archive / save_archive, and    *)
(* generate_atom with its textual post-processing of the feed document.    *)
(*                                                                         *)
(* Three specifications share the module:                                  *)
(*   Spec        runs of main() against the persisted archive and feed;    *)
(*   SpecScrape  scrape_essay applied to a snapshot (a pure function);     *)
(*   SpecPost    the post-processing steps of generate_atom applied to a   *)
(*               serialized document, once and then to their own output.   *)
(***************************************************************************)
EXTENDS Integers, Sequences, FiniteSets, TLC

VARIABLES
    archiveFile,   \* docs/archive.json: [exists, objs]
    feedFile,      \* docs/feed.xml: a document, or NoFile
    pc,            \* position of main(): "idle" between two runs
    essay,         \* main's local `essay`
    archive,       \* main's local `archive`
    tr,            \* main's locals translated_title .. summary
    clock,         \* datetime.now(), counted in runs
    runs,          \* number of runs started
    outcome,       \* how the last run ended
    archive0,      \* history: the persisted archive when the run started
    feed0,         \* history: the feed file when the run started
    checked,       \* history: the membership test of line 359 was made
    trCalls,       \* history: translate_text / summarize_translation calls
    failedAt,      \* history: the step of this run that raised, or ""
    feedWrites,    \* history: writes to the feed file in this run
    snap,          \* SpecScrape: the snapshot handed to scrape_essay
    scraped,       \* SpecScrape: what scrape_essay returned
    scrapeDone,    \* SpecScrape: scrape_essay has returned
    ppWindow,      \* SpecPost: the archive the document was serialized from
    ppDoc,         \* SpecPost: the document
    ppPrev,        \* SpecPost: the document before the last application
    ppStage        \* SpecPost: number of applications made

mainVars == <<archiveFile, feedFile, pc, essay, archive, tr, clock, runs,
              outcome, archive0, feed0, checked, trCalls, failedAt, feedWrites>>
scrapeVars == <<snap, scraped, scrapeDone>>
postVars == <<ppWindow, ppDoc, ppPrev, ppStage>>
vars == <<mainVars, scrapeVars, postVars>>

-----------------------------------------------------------------------------
(* Bounds of the model *)

MaxRuns == 3          \* runs of main() after the initial archive
MaxSmall == 1         \* initial archives of 0..MaxSmall records
MaxOver == 1          \* and of FEED_WINDOW..FEED_WINDOW+MaxOver records
MaxPara == 2          \* paragraph texts 1..MaxPara (0 is the footer line)
MaxBodyParas == 2     \* paragraphs in one container of a snapshot
MaxSections == 1      \* div/section/article containers scanned by strategy 2
MaxPostEntries == 3   \* entries of a document in SpecPost
HashSpace == 64       \* number of fingerprints (16^12 in the program)
ParaUnit == 120       \* length of paragraph text p is p * ParaUnit

(* Program constants *)

MIN_BODY_LEN == 200       \* line 89
SECTION_MIN_LEN == 500    \* line 80
FEED_WINDOW == 30         \* lines 232 and 322
CHECK_RANGE == 1500       \* line 337

FOOTER_MARK_LEN == 8        \* line 103: length of the footer marker phrase
ID_PREFIX == "<id>https://adtheriault.github.io/itoi-daily/#"
ID_SUFFIX == "</id>"
HASH_LEN == 12            \* line 118
PUBLISHED_END == "</published>"
THUMB_PATTERN == "<media:thumbnail"
THUMB_TAG == "<media:thumbnail url=\"https://www.1101.com/home/2025/images/home/darling.png\" width=\"200\" height=\"200\"/>"
THUMB_INDENT == "\n  "
IMAGE_HTML == "<div style=\"text-align: center; margin-bottom: 20px;\"><img src=\"https://www.1101.com/home/2025/images/home/darling.png\" alt=\"Hobonichi Darling\" style=\"max-width: 300px; height: auto;\"/></div>"

NoText == ""
Min(a, b) == IF a < b THEN a ELSE b

SeqsUpTo(S, n) == UNION {[1..k -> S] : k \in 0..n}

-----------------------------------------------------------------------------
(* Texts.  A body is a sequence of paragraph texts joined by "\n\n"; a      *)
(* paragraph text is 0 (a line holding the footer marker) or 1..MaxPara.    *)

ParaIds == 0..MaxPara

ParaLen(p) == IF p = 0 THEN FOOTER_MARK_LEN ELSE p * ParaUnit

RECURSIVE ParasLen(_)
ParasLen(paras) == IF paras = <<>> THEN 0
                   ELSE ParaLen(Head(paras)) + ParasLen(Tail(paras))

\* len('\n\n'.join(paras))
JoinLen(paras) == IF paras = <<>> THEN 0
                  ELSE ParasLen(paras) + 2 * (Len(paras) - 1)

NoBody == [present |-> FALSE, paras |-> <<>>]
Body(paras) == [present |-> TRUE, paras |-> paras]

\* Python truthiness of `body`: None and '' are falsy
Truthy(body) == body.present /\ body.paras # <<>>

BodyLen(body) == JoinLen(body.paras)

-----------------------------------------------------------------------------
(* Snapshots: what BeautifulSoup finds in the fetched page.                *)

Containers == SeqsUpTo(ParaIds, MaxBodyParas)

Sections == [marker : BOOLEAN,
             textlen : {SECTION_MIN_LEN, SECTION_MIN_LEN + 1},
             hasP : BOOLEAN,
             paras : Containers,
             heading : {NoText, "hd"}]

Snapshots == [h2 : {NoText, "t1"},
              xdata : {NoText, "tx"},
              h3 : {NoText, "a1"},
              body_el : {NoBody} \cup {Body(c) : c \in Containers},
              sections : SeqsUpTo({s \in Sections : s.hasP \/ s.paras = <<>>},
                                  MaxSections)]

\* lines 55-63: the h2 text, else the darlingTitle of the x-data attribute
Strategy1Title(s) == IF s.h2 # NoText THEN s.h2 ELSE s.xdata

\* lines 65-66
Strategy1Author(s) == s.h3

\* lines 68-74: the container's paragraphs joined, or its own text
Strategy1Body(s) == s.body_el

\* line 80: the section qualifies
Qualifies(sec) == sec.marker /\ sec.textlen > SECTION_MIN_LEN

\* lines 78-87: the first qualifying section that has <p> elements decides
RECURSIVE Strategy2(_, _)
Strategy2(secs, title) ==
    IF secs = <<>> THEN [body |-> NoBody, title |-> title]
    ELSE LET sec == Head(secs) IN
         IF Qualifies(sec) /\ sec.hasP
         THEN [body |-> Body(sec.paras),
               title |-> IF sec.heading # NoText /\ title = NoText
                         THEN sec.heading ELSE title]
         ELSE Strategy2(Tail(secs), title)

\* line 77: `if not body`
NeedsFallback(body) == ~Truthy(body)

\* line 89: `if not body or len(body) < 200`
Rejected(body) == ~Truthy(body) \/ BodyLen(body) < MIN_BODY_LEN

\* lines 94-115: drop footer lines, empty and repeated paragraphs
RECURSIVE Clean(_, _)
Clean(paras, seen) ==
    IF paras = <<>> THEN <<>>
    ELSE LET p == Head(paras) IN
         IF p = 0 \/ p \in seen THEN Clean(Tail(paras), seen)
         ELSE <<p>> \o Clean(Tail(paras), seen \cup {p})

Normalize(body) == Clean(body.paras, {})

\* line 118: md5(body)[:12], a deterministic digest into a finite space
RECURSIVE Digest(_, _)
Digest(paras, h) ==
    IF paras = <<>> THEN h
    ELSE Digest(Tail(paras), (h * 33 + Head(paras)) % HashSpace)

content_hash(paras) == Digest(paras, 0)

NoneEssay == [kind |-> "None"]

Title(text, day) == [text |-> text, day |-> day]

\* (mutant) the fingerprint taken over the title and the body
MakeEssayTitleHash(title, author, paras, now) ==
    [kind |-> "essay",
     title |-> IF title # NoText THEN Title(title, 0) ELSE Title("default", now),
     author |-> IF author # NoText THEN author ELSE "default-author",
     body |-> paras,
     date |-> now,
     hash |-> (content_hash(paras) + Len(title)) % HashSpace]

\* lines 120-126
MakeEssay(title, author, paras, now) ==
    [kind |-> "essay",
     title |-> IF title # NoText THEN Title(title, 0) ELSE Title("default", now),
     author |-> IF author # NoText THEN author ELSE "default-author",
     body |-> paras,
     date |-> now,
     hash |-> content_hash(paras)]

\* lines 32-126
scrape_essay(s, now) ==
    LET body1 == Strategy1Body(s)
        title1 == Strategy1Title(s)
        fb == IF NeedsFallback(body1) THEN Strategy2(s.sections, title1)
              ELSE [body |-> body1, title |-> title1]
    IN IF Rejected(fb.body) THEN NoneEssay
       ELSE MakeEssay(fb.title, Strategy1Author(s), Normalize(fb.body), now)

-----------------------------------------------------------------------------
(* The archive: main's list of essay dicts, and its JSON file.             *)

NoTr == [translated_title |-> Title(NoText, 0), translated_author |-> NoText,
         translation |-> 0, summary |-> NoText]

\* translate_text(text, is_title=True).strip(): the service's rendering of text
TranslatedTitle(title) == Title("en:" \o title.text, title.day)
TranslatedAuthor(author) == "en:" \o author

\* translate_text(body): the translation, kept as the length of its text,
\* shorter or longer than the range line 337 looks into
TranslationLens == {CHECK_RANGE \div 2, 2 * CHECK_RANGE}

\* lines 377-380: the essay dict with its four added keys
Enrich(e, t) ==
    [kind |-> e.kind, title |-> e.title, author |-> e.author, body |-> e.body,
     date |-> e.date, hash |-> e.hash,
     translation |-> t.translation, summary |-> t.summary,
     translated_title |-> t.translated_title,
     translated_author |-> t.translated_author]

\* (mutant) only the newest record is looked at
existing_hashes_head(arch) == IF arch = <<>> THEN {} ELSE {arch[1].hash}

\* line 357
existing_hashes(arch) == {arch[i].hash : i \in DOMAIN arch}

\* (mutant) the membership test never finds the essay
NeverArchived(e, arch) == FALSE

\* line 359
AlreadyArchived(e, arch) == e.hash \in existing_hashes(arch)

\* (mutant) the essay put at the end
ArchiveAppend(arch, e) == Append(arch, e)

\* line 381: archive.insert(0, essay)
ArchiveInsert(arch, e) == <<e>> \o arch

\* json.dump of one value: every field of an essay dict is a JSON value
JsonValue(v) == [json |-> v]

\* lines 213-217: the file's content after save_archive(arch)
save_archive(arch) ==
    [exists |-> TRUE,
     objs |-> [i \in DOMAIN arch |->
                 [f \in DOMAIN arch[i] |-> JsonValue(arch[i][f])]]]

\* lines 205-210
load_archive(file) ==
    IF file.exists
    THEN [i \in DOMAIN file.objs |->
            [f \in DOMAIN file.objs[i] |-> file.objs[i][f].json]]
    ELSE <<>>

NoArchiveFile == [exists |-> FALSE, objs |-> <<>>]

-----------------------------------------------------------------------------
(* The feed document, as text: the root element's attributes, the header   *)
(* elements in order, and the entries as a sequence of tokens, each with   *)
(* the number of characters it takes in the file.                          *)

NoFile == [kind |-> "absent", prolog |-> FALSE, attrs |-> <<>>,
           header |-> <<>>, body |-> <<>>]

Token(k, h, n) == [k |-> k, h |-> h, n |-> n]

IdLen == Len(ID_PREFIX) + HASH_LEN + Len(ID_SUFFIX)
ThumbLen == Len(THUMB_INDENT) + Len(THUMB_TAG)

\* lines 234-251 as serialized by line 254: <id>, then title, updated, author,
\* content (image_html + translation), link and summary, then <published>
EntryTokens(rec) ==
    <<Token("id", rec.hash, IdLen),
      Token("mid", -1, Len(IMAGE_HTML) + rec.translation),
      Token("pubend", -1, Len(PUBLISHED_END)),
      Token("end", -1, Len("</entry>") + Len("<entry>"))>>

\* line 233: fg.add_entry(), whose default is order='prepend'
add_entry(entries, fe) == <<fe>> \o entries

\* lines 232, 322: archive[:30]
Window(arch) == SubSeq(arch, 1, Min(FEED_WINDOW, Len(arch)))

\* lines 232-251: the generator's entry list after i turns of the loop
RECURSIVE AddEntries(_, _)
AddEntries(recs, i) ==
    IF i = 0 THEN <<>>
    ELSE add_entry(AddEntries(recs, i - 1), EntryTokens(recs[i]))

\* the entries written one after the other
RECURSIVE Flatten(_, _)
Flatten(ss, i) == IF i = 0 THEN <<>> ELSE Flatten(ss, i - 1) \o ss[i]

\* lines 222-254: the document fg.atom_file writes
Serialize(arch) ==
    [kind |-> "doc",
     prolog |-> TRUE,
     attrs |-> <<"xmlns", "xml:lang">>,
     header |-> <<"id", "title", "updated", "link_alternate", "link_self",
                  "generator", "icon", "subtitle">>,
     body |-> LET w == Window(arch)
                  entries == AddEntries(w, Len(w))
              IN Flatten(entries, Len(entries))]

Range(s) == {s[i] : i \in DOMAIN s}

\* lines 260-272
InjectNamespaces(doc) ==
    IF doc.attrs = <<>> \/ doc.attrs[1] # "xmlns" THEN doc
    ELSE IF "xmlns:media" \notin Range(doc.attrs)
    THEN [doc EXCEPT !.attrs = <<"xmlns", "xmlns:media", "xmlns:thr">>
                                 \o Tail(doc.attrs)]
    ELSE IF "xmlns:thr" \notin Range(doc.attrs)
    THEN [doc EXCEPT !.attrs = <<"xmlns", "xmlns:thr">> \o Tail(doc.attrs)]
    ELSE doc

FirstIndex(s, x) == IF x \in Range(s)
                    THEN CHOOSE i \in DOMAIN s :
                            s[i] = x /\ \A j \in 1..(i - 1) : s[j] # x
                    ELSE 0

\* lines 274-280
AnnotateTitle(doc) ==
    IF "title_typed" \in Range(doc.header) \/ "title" \notin Range(doc.header)
    THEN doc
    ELSE [doc EXCEPT !.header[FirstIndex(doc.header, "title")] = "title_typed"]

\* re.search: the first match, if any; re.findall: every match
FirstOf(s, xs) == LET m == SelectSeq(s, LAMBDA e : e \in xs)
                  IN IF m = <<>> THEN <<>> ELSE <<Head(m)>>
AllOf(s, x) == SelectSeq(s, LAMBDA e : e = x)

\* lines 282-319
ReorderHeader(doc) ==
    IF doc.kind # "doc" THEN doc
    ELSE [doc EXCEPT
            !.prolog = FALSE,
            !.attrs = <<"xmlns", "xmlns:media", "xmlns:thr", "xml:lang">>,
            !.header = FirstOf(doc.header, {"title", "title_typed"})
                       \o FirstOf(doc.header, {"subtitle"})
                       \o FirstOf(doc.header, {"updated"})
                       \o AllOf(doc.header, "link_alternate")
                       \o FirstOf(doc.header, {"id"})
                       \o AllOf(doc.header, "link_self")
                       \o FirstOf(doc.header, {"icon"})]

\* the number of characters of the tokens lo..hi
RECURSIVE TextLen(_, _, _)
TextLen(body, lo, hi) ==
    IF lo > hi THEN 0
    ELSE IF lo = hi THEN body[lo].n
    ELSE LET m == (lo + hi) \div 2
         IN TextLen(body, lo, m) + TextLen(body, m + 1, hi)

\* str.find: the first index at or after `from` whose token satisfies, or 0
FindFrom(body, from, k, h) ==
    LET hits == {i \in from..Len(body) : body[i].k = k /\ body[i].h = h}
    IN IF hits = {} THEN 0 ELSE CHOOSE i \in hits : \A j \in hits : i <= j

\* lines 337-338: '<media:thumbnail' occurs in xml_content[start:start+1500],
\* that is, its first occurrence after `start` ends within CHECK_RANGE of it
ThumbInRange(body, idIdx) ==
    LET t == FindFrom(body, idIdx, "thumb", -1)
    IN /\ t # 0
       /\ TextLen(body, idIdx, t - 1) + Len(THUMB_INDENT) + Len(THUMB_PATTERN)
             <= CHECK_RANGE

InsertAfter(s, i, x) == SubSeq(s, 1, i) \o <<x>> \o SubSeq(s, i + 1, Len(s))

\* lines 323-339, for one record of the window
AddThumbnail(body, h) ==
    LET idIdx == FindFrom(body, 1, "id", h) IN
    IF idIdx = 0 THEN body
    ELSE LET pubIdx == FindFrom(body, idIdx, "pubend", -1) IN
         IF pubIdx = 0 \/ ThumbInRange(body, idIdx) THEN body
         ELSE InsertAfter(body, pubIdx, Token("thumb", -1, ThumbLen))

\* lines 321-339: the loop from its turn i on, `body` being the text so far
RECURSIVE AddThumbnails(_, _, _)
AddThumbnails(body, recs, i) ==
    IF i > Len(recs) THEN body
    ELSE LET next == AddThumbnail(body, recs[i].hash)
         IN \* both branches go on with the text so far; the test has it
            \* computed turn by turn
            IF next = body THEN AddThumbnails(body, recs, i + 1)
            ELSE AddThumbnails(next, recs, i + 1)

\* lines 256-339: the text written at lines 342-343
PostProcess(doc, arch) ==
    LET d == ReorderHeader(AnnotateTitle(InjectNamespaces(doc)))
        w == Window(arch)
    IN [d EXCEPT !.body = AddThumbnails(d.body, w, 1)]

\* lines 220-343
generate_atom(arch) == PostProcess(Serialize(arch), arch)

\* the fingerprints of the document's entries, in document order
EntryIds(doc) ==
    LET ids == SelectSeq(doc.body, LAMBDA t : t.k = "id")
    IN [i \in DOMAIN ids |-> ids[i].h]

Thumbs(doc) == Len(SelectSeq(doc.body, LAMBDA t : t.k = "thumb"))

-----------------------------------------------------------------------------
(* main(): one run is Scrape, LoadAndCheck, four service calls, then       *)
(* InsertAndSave, SerializeFeed and PostProcessFeed.  An uncaught          *)
(* exception ends the run where it is raised.                              *)

Snap(h2, xdata, h3, body_el, sections) ==
    [h2 |-> h2, xdata |-> xdata, h3 |-> h3, body_el |-> body_el,
     sections |-> sections]

\* the snapshots handed to the runs of main(): pages on which
MainSnapshots ==
    {Snap("t1", NoText, "a1", NoBody, <<>>),              \* nothing is found
     Snap("t1", NoText, "a1", Body(<<1>>), <<>>),         \* the body is too short
     Snap("t1", NoText, "a1", Body(<<2>>), <<>>),         \* an essay is found
     Snap(NoText, NoText, NoText, Body(<<2>>), <<>>),     \* ... without title, author
     Snap("t1", NoText, "a1", Body(<<2, 0>>), <<>>),      \* ... with the footer line
     Snap(NoText, "tx", "a1", Body(<<1, 1>>), <<>>),      \* ... with a repeated paragraph
     Snap("t1", NoText, "a1", Body(<<1, 2>>), <<>>),      \* another essay is found
     Snap(NoText, NoText, "a1", NoBody,                   \* only strategy 2 finds one
          <<[marker |-> TRUE, textlen |-> SECTION_MIN_LEN + 1, hasP |-> TRUE,
             paras |-> <<2, 1>>, heading |-> "hd"]>>)}

\* lines 131-133, 174-178: the call returns its text, or raises because the
\* key is missing (the first call of a run meets that) or the service fails
CallOutcomes(calls) == {"ok", "service_error"}
                       \cup (IF calls = 0 THEN {"no_key"} ELSE {})

\* (mutant) the exception swallowed, main() going on
ContinueAfterCall(ok, next) == next

\* lines 365-374: no call is wrapped in try/except, so a raise ends main()
AfterCall(ok, next) == IF ok THEN next ELSE "idle"

\* lines 350-353
Scrape ==
    /\ pc = "idle"
    /\ runs < MaxRuns
    /\ \E s \in MainSnapshots :
          LET e == scrape_essay(s, clock + 1) IN
          /\ essay' = e
          /\ pc' = IF e = NoneEssay THEN "idle" ELSE "load"
          /\ failedAt' = IF e = NoneEssay THEN "extract" ELSE ""
          /\ outcome' = IF e = NoneEssay THEN "no_essay" ELSE "running"
    /\ runs' = runs + 1
    /\ clock' = clock + 1
    /\ archive' = <<>>
    /\ tr' = NoTr
    /\ archive0' = load_archive(archiveFile)
    /\ feed0' = feedFile
    /\ checked' = FALSE
    /\ trCalls' = 0
    /\ feedWrites' = 0
    /\ UNCHANGED <<archiveFile, feedFile, scrapeVars, postVars>>

\* lines 355-361
LoadAndCheck ==
    /\ pc = "load"
    /\ archive' = load_archive(archiveFile)
    /\ checked' = TRUE
    /\ pc' = IF AlreadyArchived(essay, archive') THEN "idle" ELSE "tr_title"
    /\ outcome' = IF pc' = "idle" THEN "duplicate" ELSE outcome
    /\ UNCHANGED <<archiveFile, feedFile, essay, tr, clock, runs,
                   archive0, feed0, trCalls, failedAt, feedWrites,
                   scrapeVars, postVars>>

\* one call of translate_text or summarize_translation at position `at`
ServiceCall(at, next, result) ==
    /\ pc = at
    /\ \E r \in CallOutcomes(trCalls) :
          LET ok == (r = "ok") IN
          /\ pc' = AfterCall(ok, next)
          /\ failedAt' = IF ok THEN failedAt ELSE "translate"
          /\ tr' = IF ok THEN result ELSE tr
          /\ outcome' = IF pc' = "idle" THEN "translate_failed" ELSE outcome
    /\ trCalls' = trCalls + 1
    /\ UNCHANGED <<archiveFile, feedFile, essay, archive, clock, runs,
                   archive0, feed0, checked, feedWrites, scrapeVars, postVars>>

\* line 365
TranslateTitle ==
    ServiceCall("tr_title", "tr_author",
                [tr EXCEPT !.translated_title = TranslatedTitle(essay.title)])

\* line 368
TranslateAuthor ==
    ServiceCall("tr_author", "tr_body",
                [tr EXCEPT !.translated_author = TranslatedAuthor(essay.author)])

\* line 371
TranslateBody ==
    \E n \in TranslationLens :
        ServiceCall("tr_body", "summarize", [tr EXCEPT !.translation = n])

\* line 374
Summarize ==
    ServiceCall("summarize", "save", [tr EXCEPT !.summary = "summary"])

\* lines 376-384
InsertAndSave ==
    /\ pc = "save"
    /\ archive' = ArchiveInsert(archive, Enrich(essay, tr))
    /\ archiveFile' = save_archive(archive')
    /\ pc' = "serialize"
    /\ UNCHANGED <<feedFile, essay, tr, clock, runs, outcome, archive0,
                   feed0, checked, trCalls, failedAt, feedWrites,
                   scrapeVars, postVars>>

\* lines 222-254 of generate_atom: build the feed and write it with atom_file;
\* building, serializing or writing may raise
SerializeFeed ==
    /\ pc = "serialize"
    /\ \E raised \in BOOLEAN :
          IF raised
          THEN /\ pc' = "idle"
               /\ outcome' = "feed_failed"
               /\ failedAt' = "serialize"
               /\ UNCHANGED <<feedFile, feedWrites>>
          ELSE /\ pc' = "postprocess"
               /\ feedFile' = Serialize(archive)
               /\ feedWrites' = feedWrites + 1
               /\ UNCHANGED <<outcome, failedAt>>
    /\ UNCHANGED <<archiveFile, essay, archive, tr, clock, runs,
                   archive0, feed0, checked, trCalls, scrapeVars, postVars>>

\* lines 256-343 of generate_atom: read the file back, post-process, write;
\* the run may fail before the write of line 342
PostProcessFeed ==
    /\ pc = "postprocess"
    /\ \E raised \in BOOLEAN :
          IF raised
          THEN /\ outcome' = "feed_failed"
               /\ failedAt' = "postprocess"
               /\ UNCHANGED <<feedFile, feedWrites>>
          ELSE /\ outcome' = "success"
               /\ feedFile' = PostProcess(feedFile, archive)
               /\ feedWrites' = feedWrites + 1
               /\ UNCHANGED failedAt
    /\ pc' = "idle"
    /\ UNCHANGED <<archiveFile, essay, archive, tr, clock, runs,
                   archive0, feed0, checked, trCalls, scrapeVars, postVars>>

-----------------------------------------------------------------------------
(* Initial states: the files left by n earlier successful runs, each on a  *)
(* new essay of one paragraph; essay k had the paragraph text k + 1.       *)

InitSizes == (0..MaxSmall) \cup (FEED_WINDOW..(FEED_WINDOW + MaxOver))

PriorEssay(k) == MakeEssay("t1", "a1", <<k + 1>>, k)

PriorTr(k) == [translated_title |-> TranslatedTitle(Title("t1", 0)),
               translated_author |-> TranslatedAuthor("a1"),
               translation |-> CHECK_RANGE \div 2,
               summary |-> "summary"]

\* the archive after runs on the essays 1..n, the newest first
PriorRuns(n) == [i \in 1..n |-> Enrich(PriorEssay(n + 1 - i), PriorTr(n + 1 - i))]

ScrapeIdle == /\ snap = Snap(NoText, NoText, NoText, NoBody, <<>>)
              /\ scraped = NoneEssay
              /\ scrapeDone = FALSE

PostIdle == /\ ppWindow = <<>>
            /\ ppDoc = NoFile
            /\ ppPrev = NoFile
            /\ ppStage = 0

\* the two files after n runs: none before the first
FilesAfter(n) ==
    [archive |-> IF n = 0 THEN NoArchiveFile ELSE save_archive(PriorRuns(n)),
     feed |-> IF n = 0 THEN NoFile ELSE generate_atom(PriorRuns(n)),
     clock |-> n]

InitialFiles == {FilesAfter(n) : n \in InitSizes}

MainIdle(files) ==
    /\ archiveFile = files.archive
    /\ feedFile = files.feed
    /\ pc = "idle"
    /\ essay = NoneEssay
    /\ archive = <<>>
    /\ tr = NoTr
    /\ clock = files.clock
    /\ runs = 0
    /\ outcome = "none"
    /\ archive0 = load_archive(archiveFile)
    /\ feed0 = feedFile
    /\ checked = FALSE
    /\ trCalls = 0
    /\ failedAt = ""
    /\ feedWrites = 0

Init == /\ \E files \in InitialFiles : MainIdle(files)
        /\ ScrapeIdle
        /\ PostIdle

Next == \/ Scrape
        \/ LoadAndCheck
        \/ TranslateTitle
        \/ TranslateAuthor
        \/ TranslateBody
        \/ Summarize
        \/ InsertAndSave
        \/ SerializeFeed
        \/ PostProcessFeed

Spec == Init /\ [][Next]_vars

-----------------------------------------------------------------------------
(* scrape_essay as a function of the snapshot.                             *)

\* lines 32-126, on any snapshot
DoScrape ==
    /\ ~scrapeDone
    /\ scraped' = scrape_essay(snap, 1)
    /\ scrapeDone' = TRUE
    /\ UNCHANGED <<snap, mainVars, postVars>>

InitScrape == /\ snap \in Snapshots
              /\ scraped = NoneEssay
              /\ scrapeDone = FALSE
              /\ MainIdle(FilesAfter(0))
              /\ PostIdle

SpecScrape == InitScrape /\ [][DoScrape]_vars

-----------------------------------------------------------------------------
(* The post-processing of generate_atom as a function of the serialized    *)
(* document and the archive, applied to the output of atom_file and then   *)
(* to its own output.                                                      *)

PostRecord(p, n) ==
    Enrich(MakeEssay("t1", "a1", <<p>>, p),
           [translated_title |-> TranslatedTitle(Title("t1", 0)),
            translated_author |-> TranslatedAuthor("a1"),
            translation |-> n,
            summary |-> "summary"])

PostRecords == {PostRecord(p, n) : p \in 1..MaxPostEntries, n \in TranslationLens}

\* archives of distinct essays
PostWindows ==
    {w \in SeqsUpTo(PostRecords, MaxPostEntries) :
        \A i, j \in DOMAIN w : w[i].hash = w[j].hash => i = j}

\* lines 256-339, on the text read at line 258
ApplyPostProcess ==
    /\ ppStage < 2
    /\ ppPrev' = ppDoc
    /\ ppDoc' = PostProcess(ppDoc, ppWindow)
    /\ ppStage' = ppStage + 1
    /\ UNCHANGED <<ppWindow, mainVars, scrapeVars>>

InitPost == /\ ppWindow \in PostWindows
            /\ ppDoc = Serialize(ppWindow)
            /\ ppPrev = NoFile
            /\ ppStage = 0
            /\ MainIdle(FilesAfter(0))
            /\ ScrapeIdle

SpecPost == InitPost /\ [][ApplyPostProcess]_vars

-----------------------------------------------------------------------------
(* The claims.                                                             *)

Persisted == load_archive(archiveFile)

Hashes(arch) == {arch[i].hash : i \in DOMAIN arch}

HashSeq(arch) == [i \in DOMAIN arch |-> arch[i].hash]

(* C1: no translate_text or summarize_translation call is made before the  *)
(* membership test, and none at all in a run whose essay's fingerprint is  *)
(* in the archive the run loaded.                                          *)
C1_NoTranslationOfArchived ==
    trCalls > 0 => /\ checked
                   /\ \A i \in DOMAIN archive0 : archive0[i].hash # essay.hash

\* a run met an archived fingerprint and ended without a call
C1_Witness ==
    /\ outcome = "duplicate"
    /\ checked
    /\ trCalls = 0
    /\ \E i \in DOMAIN archive0 : archive0[i].hash = essay.hash

(* C2: the persisted archive never holds two records with the same         *)
(* fingerprint.                                                            *)
C2_UniqueFingerprints ==
    \A i, j \in DOMAIN Persisted :
        Persisted[i].hash = Persisted[j].hash => i = j

\* a run archived an essay and the next run met that essay again
C2_Witness ==
    /\ runs >= 2
    /\ outcome = "duplicate"
    /\ Len(Persisted) >= 2
    /\ Persisted[1].date = clock - 1
    /\ Persisted[1].hash = essay.hash

(* C3: a run whose essay has the canonical body of an archived record      *)
(* leaves the archive as it was and does not write the feed file.          *)
C3_SameBodyIsSkipped ==
    (essay # NoneEssay /\ \E i \in DOMAIN archive0 : archive0[i].body = essay.body)
        => /\ Persisted = archive0
           /\ feedFile = feed0
           /\ feedWrites = 0

\* a run met an archived body under another title and ended
C3_Witness ==
    /\ pc = "idle"
    /\ essay # NoneEssay
    /\ \E i \in DOMAIN archive0 : /\ archive0[i].body = essay.body
                                  /\ archive0[i].title # essay.title
                                  /\ archive0[i].author # essay.author

(* C4: a run changes the persisted archive only by putting one record in   *)
(* front of the records it held, which stay as they were.                  *)
C4_OnlyPrepends ==
    \/ Persisted = archive0
    \/ /\ Len(Persisted) = Len(archive0) + 1
       /\ \A i \in DOMAIN archive0 : Persisted[i + 1] = archive0[i]

\* a run put a record in front of an archive of more than the feed's window
C4_Witness ==
    /\ Len(archive0) > FEED_WINDOW
    /\ Len(Persisted) = Len(archive0) + 1
    /\ Persisted[1].hash \notin Hashes(archive0)

(* C5: once extraction or a translation or summarization call has failed,  *)
(* the run writes neither the archive nor the feed file.                   *)
C5_AbortLeavesFiles ==
    failedAt \in {"extract", "translate"}
        => /\ Persisted = archive0
           /\ feedFile = feed0
           /\ feedWrites = 0

\* the summarization call failed after three translations
C5_Witness ==
    /\ failedAt = "translate"
    /\ trCalls = 4
    /\ pc = "idle"
    /\ archive0 # <<>>

(* C6: a run that fails in generate_atom leaves the published feed file as *)
(* it was before the run.                                                  *)
C6_FailedFeedUntouched ==
    failedAt \in {"serialize", "postprocess"} => feedFile = feed0

(* C7: between two runs, the feed's entries are the newest min(30, n)      *)
(* records of the persisted archive.                                       *)
C7_FeedMatchesArchive ==
    pc = "idle" =>
        /\ Range(EntryIds(feedFile)) = Hashes(Window(Persisted))
        /\ Len(EntryIds(feedFile)) = Len(Window(Persisted))

(* C8: the feed written by generate_atom lists the first min(30, n)        *)
(* records of the archive, in the archive's order.                         *)
C8_FeedInArchiveOrder ==
    outcome = "success" => EntryIds(feedFile) = HashSeq(Window(Persisted))

(* C9: post-processing an already post-processed document yields the same  *)
(* document, with at most one thumbnail per entry.                         *)
C9_PostProcessIdempotent ==
    ppStage = 2 => /\ ppDoc = ppPrev
                   /\ Thumbs(ppDoc) <= Len(EntryIds(ppDoc))

(* C10: when strategy 1 yields no body or one below 200 characters and     *)
(* strategy 2 yields one of at least 200, scrape_essay returns a record    *)
(* built from strategy 2's body.                                           *)
C10_FallsBackToHeuristic ==
    LET b1 == Strategy1Body(snap)
        s2 == Strategy2(snap.sections, Strategy1Title(snap))
    IN (/\ scrapeDone
        /\ ~Truthy(b1) \/ BodyLen(b1) < MIN_BODY_LEN
        /\ Truthy(s2.body)
        /\ BodyLen(s2.body) >= MIN_BODY_LEN)
       => /\ scraped # NoneEssay
          /\ scraped.body = Normalize(s2.body)

=============================================================================
